---- MODULE Spec2Model ----
(***************************************************************************)
(* Model of toxicity_200/toxicity.py: the tokenizer and phrase matcher of  *)
(* ToxicityList and the threshold layer ToxicityFilter.                    *)
(*                                                                         *)
(* A Python str is a sequence of characters.  The characters are the       *)
(* representatives below: letters with their case, an ASCII punctuation    *)
(* mark, a symbol, whitespace, a Han ideograph and a full-width comma.     *)
(* Optional values are sequences of length 0 (None) or 1.                  *)
(***************************************************************************)
EXTENDS Integers, Sequences, FiniteSets, TLC

None == <<>>
Some(x) == <<x>>

\* ------------------------------------------------------------------ bounds
MaxLen == 5
MaxLines == 2
MaxLineLen == 1
MaxTextLen == 3
MaxFLines == 1
MaxTox == 1
MaxProcessed == 1

\* -------------------------------------------------------------- characters
Han == "han"
FwComma == "fwcomma"
TokAlphabet == {"a", "A", ",", "+", " ", Han, FwComma}
PhraseAlphabet == {"a", "A", ","}
TextAlphabet == {"a", "A", ",", " "}

RECURSIVE Str(_, _)
Str(alphabet, n) ==
  IF n = 0 THEN {<<>>}
  ELSE LET shorter == Str(alphabet, n - 1)
       IN  shorter \cup {Append(w, c) : w \in {x \in shorter : Len(x) = n - 1},
                                        c \in alphabet}

\* ------------------------------------------------------------ str methods
IsSpace(c) == c = " "

RECURSIVE LStrip(_)
LStrip(s) ==
  IF s # <<>> /\ IsSpace(Head(s)) THEN LStrip(Tail(s)) ELSE s

RECURSIVE RStrip(_)
RStrip(s) ==
  IF s # <<>> /\ IsSpace(s[Len(s)]) THEN RStrip(SubSeq(s, 1, Len(s) - 1)) ELSE s

strip(s) == RStrip(LStrip(s))

LowerChar(c) == IF c = "A" THEN "a" ELSE c

lower(s) == [i \in 1..Len(s) |-> LowerChar(s[i])]

\* str.split() with no argument: the maximal runs of non-whitespace.
RECURSIVE SplitFrom(_, _, _)
SplitFrom(s, cur, acc) ==
  IF s = <<>> THEN (IF cur = <<>> THEN acc ELSE Append(acc, cur))
  ELSE IF IsSpace(Head(s))
       THEN SplitFrom(Tail(s), <<>>, IF cur = <<>> THEN acc ELSE Append(acc, cur))
       ELSE SplitFrom(Tail(s), Append(cur, Head(s)), acc)

split(s) == SplitFrom(s, <<>>, <<>>)

\* " ".join(words)
RECURSIVE join(_)
join(words) ==
  IF words = <<>> THEN <<>>
  ELSE IF Len(words) = 1 THEN words[1]
  ELSE words[1] \o <<" ">> \o join(Tail(words))

\* t in u, for two strings
IsIn(t, u) ==
  \E i \in 0..(Len(u) - Len(t)) : SubSeq(u, i + 1, i + Len(t)) = t

\* ------------------------------------------------------------ text_normalizer
UnicodePunct(c) == IF c = FwComma THEN <<",">> ELSE <<c>>

RECURSIVE replace_unicode_punct(_)
replace_unicode_punct(s) ==
  IF s = <<>> THEN <<>>
  ELSE UnicodePunct(Head(s)) \o replace_unicode_punct(Tail(s))

\* ---------------------------------------------------------------- ToxicityList
\* self._split = regex.compile(r"(\p{P}|\p{S}|\p{Han})")
SplitMatches(c) == c \in {",", FwComma} \/ c = "+" \/ c = Han

\* self._split.sub(r" \1 ", s)
RECURSIVE SplitSub(_)
SplitSub(s) ==
  IF s = <<>> THEN <<>>
  ELSE (IF SplitMatches(Head(s)) THEN <<" ", Head(s), " ">> ELSE <<Head(s)>>)
       \o SplitSub(Tail(s))

\* Mutants of Pad: no padding at all; the trailing space forgotten.
Pad_NoPadding(tok) == tok

Pad_LeadingOnly(tok) == <<" ">> \o tok

Pad(tok) == <<" ">> \o tok \o <<" ">>

\* Mutant of _tokenize: the whitespace runs are not collapsed (line 43 dropped).
_tokenize_NoCollapse(s0) ==
  Pad(SplitSub(replace_unicode_punct(strip(s0))))

_tokenize(s0) ==
  LET s1 == replace_unicode_punct(strip(s0))
      tok1 == SplitSub(s1)
      tok2 == join(split(tok1))
  IN  Pad(tok2)

\* open(path, "rt") succeeds only on a readable regular file.
Paths == {"src_twl", "tgt_twl", "eng_twl"}
Missing == [kind |-> "missing", lines |-> <<>>]
Unreadable == [kind |-> "unreadable", lines |-> <<>>]
File(lines) == [kind |-> "file", lines |-> lines]
CanOpen(f) == f.kind = "file"

\* Mutant of AddLines: the lowercased form is not stored (line 34 dropped).
RECURSIVE AddLines_NoLower(_, _)
AddLines_NoLower(lines, toxicity) ==
  IF lines = <<>> THEN toxicity
  ELSE AddLines_NoLower(Tail(lines), toxicity \cup {_tokenize(strip(Head(lines)))})

\* for line in fin: ... (lines 30-34)
RECURSIVE AddLines(_, _)
AddLines(lines, toxicity) ==
  IF lines = <<>> THEN toxicity
  ELSE LET line == strip(Head(lines))
           tokenized == _tokenize(line)
       IN  AddLines(Tail(lines), toxicity \cup {tokenized, lower(tokenized)})

\* Mutant of LoadPaths: the loop stops after the first path.
LoadPaths_FirstOnly(paths, files, toxicity) ==
  IF paths = <<>> THEN [ok |-> TRUE, toxicity |-> toxicity]
  ELSE IF ~CanOpen(files[Head(paths)]) THEN [ok |-> FALSE, toxicity |-> {}]
  ELSE [ok |-> TRUE, toxicity |-> AddLines(files[Head(paths)].lines, toxicity)]

\* for path in word_list_paths: with open(path, "rt") as fin: ... (lines 28-34)
\* ok = FALSE stands for the exception raised by open().
RECURSIVE LoadPaths(_, _, _)
LoadPaths(paths, files, toxicity) ==
  IF paths = <<>> THEN [ok |-> TRUE, toxicity |-> toxicity]
  ELSE IF ~CanOpen(files[Head(paths)]) THEN [ok |-> FALSE, toxicity |-> {}]
  ELSE LoadPaths(Tail(paths), files, AddLines(files[Head(paths)].lines, toxicity))

ToxicityList(paths, files) == LoadPaths(paths, files, {})

Max(a, b) == IF a >= b THEN a ELSE b

toxicity_count(toxicity, text) ==
  LET tokenized == _tokenize(replace_unicode_punct(text))
      regular == Cardinality({t \in toxicity : IsIn(t, tokenized)})
      lowercased == Cardinality({t \in toxicity : IsIn(t, lower(tokenized))})
  IN  Max(regular, lowercased)

\* --------------------------------------------------------------- ToxicityFilter
\* os.path.isfile(path): a regular file is there, readable or not.
isfile(f) == f.kind # "missing"

\* twl_path_template.format(lang=...)
src_twl_path == "src_twl"
tgt_twl_path == "tgt_twl"

\* Mutant of SrcPaths: the os.path.isfile test is dropped.
SrcPaths_NoIsfile(files, eng_path) ==
  <<"src_twl">> \o (IF eng_path # None THEN <<eng_path[1]>> ELSE <<>>)

\* lines 79-85
SrcPaths(files, eng_path) ==
  (IF isfile(files[src_twl_path]) THEN <<src_twl_path>> ELSE <<>>)
  \o (IF eng_path # None THEN <<eng_path[1]>> ELSE <<>>)

\* lines 90-97
TgtPaths(files, eng_path, lang) ==
  (IF lang # None /\ isfile(files[tgt_twl_path]) THEN <<tgt_twl_path>> ELSE <<>>)
  \o (IF eng_path # None THEN <<eng_path[1]>> ELSE <<>>)

\* if paths: list = ToxicityList(paths)   (lines 86-87, 98-99)
ListFor(paths, files) ==
  IF paths # <<>>
  THEN LET r == ToxicityList(paths, files)
       IN  [ok |-> r.ok, list |-> IF r.ok THEN Some(r.toxicity) ELSE None]
  ELSE [ok |-> TRUE, list |-> None]

\* Mutant of Exceeds: >= in place of >.
Exceeds_Geq(n, max) == max # None /\ n >= max[1]

\* max_toxicity is not None and toxicity > max_toxicity   (lines 108, 115)
Exceeds(n, max) == max # None /\ n > max[1]

\* ------------------------------------------------------------------- state
VARIABLES
  s, tok, calls,                         \* _tokenize: argument, result, calls made
  fs,                                    \* the files behind the word list paths
  word_list_paths, toxicity,             \* a ToxicityList: its paths and its set
  query, count,                          \* toxicity_count: argument and result
  eng_porn_twl_path, max_toxicity, tgt_lang,    \* ToxicityFilter arguments
  built,                                 \* "no", "ok", or "error" (IOError raised)
  src_toxicity_list, tgt_toxicity_list,  \* the filter's matchers
  counts_max_toxicity,                   \* counts.max_toxicity
  line,                                  \* the DatasetLine of the last filter_line
  src_toxicity, tgt_toxicity,            \* filter_line locals
  is_src_toxic, is_tgt_toxic,
  processed, rejected                    \* lines processed; lines with a toxic side

tokVars == <<s, tok, calls>>
listVars == <<word_list_paths, toxicity, query, count>>
cfgVars == <<eng_porn_twl_path, max_toxicity, tgt_lang>>
filterVars == <<built, src_toxicity_list, tgt_toxicity_list>>
lineVars == <<counts_max_toxicity, line, src_toxicity, tgt_toxicity,
              is_src_toxic, is_tgt_toxic, processed, rejected>>
vars == <<s, tok, calls, fs, word_list_paths, toxicity, query, count,
          eng_porn_twl_path, max_toxicity, tgt_lang, built,
          src_toxicity_list, tgt_toxicity_list, counts_max_toxicity, line,
          src_toxicity, tgt_toxicity, is_src_toxic, is_tgt_toxic,
          processed, rejected>>

TokIdle == s = <<>> /\ tok = None /\ calls = 0
ListIdle ==
  /\ word_list_paths = <<>>
  /\ toxicity = None
  /\ query = None
  /\ count = None
FilterIdle ==
  /\ eng_porn_twl_path = None
  /\ max_toxicity = None
  /\ tgt_lang = None
  /\ built = "no"
  /\ src_toxicity_list = None
  /\ tgt_toxicity_list = None
  /\ counts_max_toxicity = 0
  /\ line = None
  /\ src_toxicity = None
  /\ tgt_toxicity = None
  /\ is_src_toxic = FALSE
  /\ is_tgt_toxic = FALSE
  /\ processed = 0
  /\ rejected = 0

RECURSIVE Seqs(_, _)
Seqs(S, n) ==
  IF n = 0 THEN {<<>>}
  ELSE LET shorter == Seqs(S, n - 1)
       IN  shorter \cup {Append(w, x) : w \in {y \in shorter : Len(y) = n - 1}, x \in S}

\* ------------------------------------------------- tokenizer specification
InitTok ==
  /\ s \in Str(TokAlphabet, MaxLen)
  /\ tok = None
  /\ calls = 0
  /\ fs = [p \in Paths |-> Missing]
  /\ ListIdle
  /\ FilterIdle

Tokenize ==
  /\ calls = 0
  /\ tok' = Some(_tokenize(s))
  /\ calls' = 1
  /\ UNCHANGED <<s, fs, listVars, cfgVars, filterVars, lineVars>>

Retokenize ==
  /\ calls = 1
  /\ s' = tok[1]
  /\ tok' = Some(_tokenize(tok[1]))
  /\ calls' = 2
  /\ UNCHANGED <<fs, listVars, cfgVars, filterVars, lineVars>>

NextTok == Tokenize \/ Retokenize

SpecTok == InitTok /\ [][NextTok]_vars

\* ---------------------------------------------- ToxicityList specification
PhraseLines == Str(PhraseAlphabet, MaxLineLen)
Texts == Str(TextAlphabet, MaxTextLen)

\* A list of no paths, or of one phrase file.
InitList ==
  /\ TokIdle
  /\ FilterIdle
  /\ \/ /\ word_list_paths = <<>>
        /\ fs = [p \in Paths |-> Missing]
     \/ /\ word_list_paths = <<"eng_twl">>
        /\ \E lines \in Seqs(PhraseLines, MaxLines) :
             fs = [p \in Paths |-> IF p = "eng_twl" THEN File(lines) ELSE Missing]
  /\ toxicity = None
  /\ query = None
  /\ count = None

NewToxicityList ==
  /\ toxicity = None
  /\ LET r == ToxicityList(word_list_paths, fs)
     IN  /\ r.ok
         /\ toxicity' = Some(r.toxicity)
  /\ UNCHANGED <<fs, word_list_paths, query, count>>
  /\ UNCHANGED <<tokVars, cfgVars, filterVars, lineVars>>

\* The set is immutable after construction and toxicity_count is pure, so one
\* call per behaviour reaches every result.
ToxicityCount ==
  /\ toxicity # None
  /\ query = None
  /\ \E text \in Texts :
       /\ query' = Some(text)
       /\ count' = Some(toxicity_count(toxicity[1], text))
  /\ UNCHANGED <<fs, word_list_paths, toxicity>>
  /\ UNCHANGED <<tokVars, cfgVars, filterVars, lineVars>>

NextList == NewToxicityList \/ ToxicityCount

SpecList == InitList /\ [][NextList]_vars

\* -------------------------------------------- ToxicityFilter specification
\* The filter sees a matcher only through its counts: its phrase files hold
\* the phrases "a" and ",", and its texts count 0, 1 or 2 against them.
FLines == {<<"a">>, <<",">>}
FTexts == {<<>>, <<"a">>, <<"a", ",">>}
FFiles == {Missing, Unreadable} \cup {File(ls) : ls \in Seqs(FLines, MaxFLines)}

InitFilter ==
  /\ TokIdle
  /\ ListIdle
  /\ fs \in [Paths -> FFiles]
  /\ eng_porn_twl_path \in {None, Some("eng_twl")}
  /\ max_toxicity \in {None} \cup {Some(n) : n \in 0..MaxTox}
  /\ tgt_lang \in {None, Some("tgt")}
  /\ built = "no"
  /\ src_toxicity_list = None
  /\ tgt_toxicity_list = None
  /\ counts_max_toxicity = 0
  /\ line = None
  /\ src_toxicity = None
  /\ tgt_toxicity = None
  /\ is_src_toxic = FALSE
  /\ is_tgt_toxic = FALSE
  /\ processed = 0
  /\ rejected = 0

\* ToxicityFilter.__init__: an IOError from either ToxicityList leaves no filter.
NewToxicityFilter ==
  /\ built = "no"
  /\ LET src == ListFor(SrcPaths(fs, eng_porn_twl_path), fs)
         tgt == ListFor(TgtPaths(fs, eng_porn_twl_path, tgt_lang), fs)
     IN  IF src.ok /\ tgt.ok
         THEN /\ built' = "ok"
              /\ src_toxicity_list' = src.list
              /\ tgt_toxicity_list' = tgt.list
         ELSE /\ built' = "error"
              /\ UNCHANGED <<src_toxicity_list, tgt_toxicity_list>>
  /\ UNCHANGED <<fs, tokVars, listVars, cfgVars, lineVars>>

\* ToxicityFilter.filter_line(line, counts).  The source text ends inside the
\* target branch, at the assignment that mirrors is_src_toxic = True (line 110).
\* rejected counts the calls in which a side was flagged.
filter_line ==
  /\ built = "ok"
  /\ processed < MaxProcessed
  /\ \E src \in FTexts, tgt \in {None} \cup {Some(x) : x \in FTexts} :
       LET srcN == IF src_toxicity_list # None
                   THEN Some(toxicity_count(src_toxicity_list[1], src)) ELSE None
           tgtN == IF tgt # None /\ tgt_toxicity_list # None
                   THEN Some(toxicity_count(tgt_toxicity_list[1], tgt[1])) ELSE None
           srcToxic == srcN # None /\ Exceeds(srcN[1], max_toxicity)
           tgtToxic == tgtN # None /\ Exceeds(tgtN[1], max_toxicity)
       IN  /\ line' = Some([src |-> src, tgt |-> tgt])
           /\ src_toxicity' = srcN
           /\ tgt_toxicity' = tgtN
           /\ is_src_toxic' = srcToxic
           /\ is_tgt_toxic' = tgtToxic
           /\ counts_max_toxicity' = counts_max_toxicity
                                     + (IF srcToxic THEN 1 ELSE 0)
                                     + (IF tgtToxic THEN 1 ELSE 0)
           /\ rejected' = rejected + (IF srcToxic \/ tgtToxic THEN 1 ELSE 0)
  /\ processed' = processed + 1
  /\ UNCHANGED <<fs, tokVars, listVars, cfgVars, filterVars>>

NextFilter == NewToxicityFilter \/ filter_line

SpecFilter == InitFilter /\ [][NextFilter]_vars

\* ================================================================== claims
\* The phrase lines behind a list of paths, in loading order.
RECURSIVE LinesOf(_, _)
LinesOf(paths, files) ==
  IF paths = <<>> THEN <<>>
  ELSE files[Head(paths)].lines \o LinesOf(Tail(paths), files)

PhraseSet(paths, files) ==
  LET ls == LinesOf(paths, files) IN {strip(ls[i]) : i \in 1..Len(ls)}

\* The tokens of a text, case folded, and "p occurs in q as complete
\* consecutive tokens, in any casing".
Tokens(x) == split(lower(_tokenize(x)))
OccursIn(P, Q) ==
  \E i \in 0..(Len(Q) - Len(P)) : SubSeq(Q, i + 1, i + Len(P)) = P

\* C1 - Substring isolation: a loaded phrase contributes to toxicity_count
\* only when its token sequence occurs as complete consecutive tokens of the
\* tokenized text: a positive count needs such a phrase, and the count is the
\* one the occurring phrases alone would give.
C1_SubstringIsolation ==
  count # None =>
    LET q == query[1]
        Q == Tokens(q)
        occurring == SelectSeq(LinesOf(word_list_paths, fs),
                               LAMBDA l : OccursIn(Tokens(l), Q))
    IN  /\ count[1] > 0 => occurring # <<>>
        /\ count[1] = toxicity_count(AddLines(occurring, {}), q)

\* Phrase "a" does not count inside the run "aa" of the text "aa,"; phrase "," does.
C1_Witness ==
  /\ word_list_paths = <<"eng_twl">>
  /\ fs["eng_twl"].lines = << <<"a">>, <<",">> >>
  /\ query = Some(<<"a", "a", ",">>)
  /\ count = Some(1)

\* C2 - No double-counting: toxicity_count is at most the number of distinct
\* phrase lines loaded (at most 1 for a single phrase line).
C2_NoDoubleCounting ==
  count # None => count[1] <= Cardinality(PhraseSet(word_list_paths, fs))

\* C3 - Blank lines and empty sets: a list built from zero files, empty files
\* or blank lines only returns 0 for every input, the empty string included.
C3_BlankLines ==
  (count # None /\ \A p \in PhraseSet(word_list_paths, fs) : p = <<>>)
    => count[1] = 0

\* C4 - Case robustness: a text that contains a loaded phrase as whole tokens,
\* in the phrase's casing or any other, has toxicity_count >= 1.
C4_CaseRobustness ==
  count # None =>
    LET Q == Tokens(query[1])
    IN  \A p \in PhraseSet(word_list_paths, fs) :
          (Tokens(p) # <<>> /\ OccursIn(Tokens(p), Q)) => count[1] >= 1

\* Phrase "A", text "a," in the other casing.
C4_Witness ==
  /\ word_list_paths = <<"eng_twl">>
  /\ fs["eng_twl"].lines = << <<"A">> >>
  /\ query = Some(<<"a", ",">>)
  /\ count = Some(1)

NoAdjacentSpaces(t) == \A i \in 1..(Len(t) - 1) : ~(t[i] = " " /\ t[i + 1] = " ")
SpacePadded(t) == Len(t) >= 2 /\ t[1] = " " /\ t[Len(t)] = " "

\* C5 as stated - Padding invariant: for every s, the empty string included,
\* _tokenize(s) begins and ends with exactly one space and never has two
\* adjacent spaces.
C5_PaddingAsStated ==
  tok # None => SpacePadded(tok[1]) /\ NoAdjacentSpaces(tok[1])

\* C5 - Padding invariant, amended: _tokenize(s) begins and ends with a space;
\* when s has a non-whitespace character there is exactly one space on each
\* side and no two adjacent spaces anywhere; when s is empty or whitespace
\* only the result is the two padding spaces.  The lowercased form, which is
\* the other member stored in the phrase set, is padded the same way.
C5_Padding ==
  tok # None =>
    /\ SpacePadded(tok[1])
    /\ SpacePadded(lower(tok[1]))
    /\ \A i \in 1..Len(s) : s[i] # " " => NoAdjacentSpaces(tok[1])
    /\ (\A i \in 1..Len(s) : s[i] = " ") => tok[1] = <<" ", " ">>

C5_Witness ==
  /\ calls = 1
  /\ s = <<" ", "a", ",", " ">>
  /\ tok = Some(<<" ", "a", " ", ",", " ">>)

\* C6 - Idempotent tokenization: _tokenize(_tokenize(s)) = _tokenize(s).
\* After Retokenize, s holds the first result and tok the second.
C6_Idempotent ==
  calls = 2 => tok[1] = s

C6_Witness ==
  /\ calls = 2
  /\ s = <<" ", Han, " ", ",", " ">>
  /\ tok = Some(s)

\* C7 - Monotonicity: when the source matcher's phrase lines are a subset of
\* the target matcher's, the same text never counts less on the target side.
C7_Monotonic ==
  ( /\ line # None
    /\ src_toxicity # None
    /\ tgt_toxicity # None
    /\ line[1].tgt = Some(line[1].src)
    /\ PhraseSet(SrcPaths(fs, eng_porn_twl_path), fs)
         \subseteq PhraseSet(TgtPaths(fs, eng_porn_twl_path, tgt_lang), fs) )
  => src_toxicity[1] <= tgt_toxicity[1]

\* The target list is the auxiliary list plus the target language's own file.
C7_Witness ==
  /\ line # None
  /\ SrcPaths(fs, eng_porn_twl_path) = <<"eng_twl">>
  /\ TgtPaths(fs, eng_porn_twl_path, tgt_lang) = <<"tgt_twl", "eng_twl">>
  /\ fs["tgt_twl"].lines = << <<",">> >>
  /\ fs["eng_twl"].lines = << <<"a">> >>
  /\ line[1].src = <<"a", ",">>
  /\ line[1].tgt = Some(<<"a", ",">>)
  /\ src_toxicity = Some(1)
  /\ tgt_toxicity = Some(2)

\* C8 - Rejection counter: counts.max_toxicity equals the number of processed
\* lines that had a side over the threshold, each such line counted once.
C8_RejectionCounter ==
  counts_max_toxicity = rejected

\* C9 - Threshold decision: a side is flagged iff its matcher exists,
\* max_toxicity is configured and the side's count strictly exceeds it; with
\* no max_toxicity nothing is flagged and the counter stays 0.
C9_Threshold ==
  line # None =>
    /\ is_src_toxic <=>
         ( /\ src_toxicity_list # None
           /\ max_toxicity # None
           /\ toxicity_count(src_toxicity_list[1], line[1].src) > max_toxicity[1] )
    /\ is_tgt_toxic <=>
         ( /\ line[1].tgt # None
           /\ tgt_toxicity_list # None
           /\ max_toxicity # None
           /\ toxicity_count(tgt_toxicity_list[1], line[1].tgt[1]) > max_toxicity[1] )
    /\ max_toxicity = None =>
         ~is_src_toxic /\ ~is_tgt_toxic /\ counts_max_toxicity = 0

\* Source count equal to the threshold, target count above it.
C9_Witness ==
  /\ max_toxicity = Some(1)
  /\ src_toxicity = Some(1)
  /\ ~is_src_toxic
  /\ tgt_toxicity = Some(2)
  /\ is_tgt_toxic

\* C10 - Matcher construction outcomes: a missing per-language file never
\* fails construction; a side's matcher is None exactly when its language has
\* no file and no auxiliary path is given, and then the side is never toxic;
\* an auxiliary path that cannot be opened fails construction and leaves no
\* filter.
C10_Construction ==
  LET srcFile == fs["src_twl"].kind # "missing"
      tgtFile == tgt_lang # None /\ fs["tgt_twl"].kind # "missing"
      engGiven == eng_porn_twl_path # None
      engBad == engGiven /\ fs[eng_porn_twl_path[1]].kind # "file"
      langBad == \/ fs["src_twl"].kind = "unreadable"
                 \/ tgt_lang # None /\ fs["tgt_twl"].kind = "unreadable"
  IN  /\ built = "ok" =>
           /\ src_toxicity_list = None <=> (~srcFile /\ ~engGiven)
           /\ tgt_toxicity_list = None <=> (~tgtFile /\ ~engGiven)
      /\ src_toxicity_list = None => ~is_src_toxic
      /\ tgt_toxicity_list = None => ~is_tgt_toxic
      /\ built = "error" =>
           /\ engBad \/ langBad
           /\ src_toxicity_list = None /\ tgt_toxicity_list = None
           /\ line = None
      /\ (built # "no" /\ engBad) => built = "error"

\* No source file and no auxiliary list: no source matcher, the line passes.
C10_Witness ==
  /\ built = "ok"
  /\ fs["src_twl"].kind = "missing"
  /\ eng_porn_twl_path = None
  /\ src_toxicity_list = None
  /\ tgt_toxicity_list # None
  /\ line # None
  /\ max_toxicity = Some(0)
  /\ ~is_src_toxic

====
